---- MODULE Spec2Model ----
(***************************************************************************)
(* The update engine of automatic-spoon (src/app.rs): the App component's  *)
(* State (lists, groups), its View (focus, staged name buffers, selection  *)
(* cache), the local-storage snapshot, one action per Msg variant handled  *)
(* by App::update, and the projection App::view that reads the cache.      *)
(***************************************************************************)
EXTENDS Integers, Sequences, FiniteSets, TLC

\* ---------------------------------------------------------------- bounds
\* Number of messages delivered to App::update in one behaviour.
MaxSteps == 3
\* Largest item index carried by FocusItem / RemoveListItem.
MaxIdx == 1

\* ------------------------------------------------------------ value sets
\* String keys in BTreeMap order ("" sorts first).
NameOrder == <<"", "a", "b">>

Names == {NameOrder[i] : i \in DOMAIN NameOrder}

\* Texts typed into the item editor.
Texts == {"", "x"}

Indices == 0 .. MaxIdx

\* Option<T>: None is the empty tuple, Some(v) the one-element tuple.
None == <<>>

Some(v) == <<v>>

\* A BTreeMap with no entries.
EmptyMap == [n \in {} |-> None]

MapInsert(m, k, v) == [n \in (DOMAIN m) \cup {k} |-> IF n = k THEN v ELSE m[n]]

MapRemove(m, k) == [n \in (DOMAIN m) \ {k} |-> m[n]]

\* insert(k, default) in place of entry(k).or_default(): an existing entry is reset.
EntryOverwrite(m, k) == MapInsert(m, k, <<>>)

\* BTreeMap::entry(k).or_default(): inserts the default only when k is absent.
EntryOrDefault(m, k) == IF k \in DOMAIN m THEN m ELSE MapInsert(m, k, <<>>)

\* keys().cloned().next().unwrap_or_default(): smallest key, or "".
FirstKey(m) ==
    IF DOMAIN m = {} THEN ""
    ELSE NameOrder[CHOOSE i \in DOMAIN NameOrder :
                      /\ NameOrder[i] \in DOMAIN m
                      /\ \A j \in DOMAIN NameOrder : NameOrder[j] \in DOMAIN m => i <= j]

\* Item::default(): all four fields None.
ItemDefault == [name |-> None, image |-> None, link |-> None, comment |-> None]

ItemX == [name |-> Some("x"), image |-> None, link |-> None, comment |-> None]

ItemY == [name |-> None, image |-> None, link |-> Some("x"), comment |-> Some("x")]

\* State::default()
StateDefault == [lists |-> EmptyMap, groups |-> EmptyMap]

\* ------------------------------------------------------------- variables
VARIABLES
    lists,          \* State.lists : name -> sequence of Item
    groups,         \* State.groups : name -> sequence of list names
    current_list,   \* View.current_list
    new_list_name,  \* View.new_list_name
    current_group,  \* View.current_group
    new_group_name, \* View.new_group_name
    cache,          \* View.cache : name -> Item
    current_item,   \* View.current_item : Option<usize>
    stored,         \* local storage under KEY : Option<State>
    writes,         \* storage.store calls made by the last update
    panicked,       \* a panic unwound out of update or view
    shown,          \* what the last view() rendered for the current group
    msg,            \* the last step taken
    pre,            \* the component before the last step
    steps           \* messages delivered so far

vars == <<lists, groups, current_list, new_list_name, current_group,
          new_group_name, cache, current_item, stored, writes, panicked,
          shown, msg, pre, steps>>

\* The component as a record, for comparing a step's two ends.
Cur ==
    [lists |-> lists, groups |-> groups, current_list |-> current_list,
     new_list_name |-> new_list_name, current_group |-> current_group,
     new_group_name |-> new_group_name, cache |-> cache,
     current_item |-> current_item]

M(kind, arg, idx, ok) == [kind |-> kind, arg |-> arg, idx |-> idx, ok |-> ok]

\* ------------------------------------------------------------ snapshots
\* A state a previous session can have saved under KEY: list "" has two
\* items, list "a" is empty, "b" names no list; group "" names "b" and "",
\* group "a" names "" twice, the empty list and "b".
Saved ==
    [lists  |-> [n \in {"", "a"} |-> IF n = "" THEN <<ItemX, ItemY>> ELSE <<>>],
     groups |-> [n \in {"", "a"} |-> IF n = "" THEN <<"b", "">> ELSE <<"", "a", "", "b">>]]

\* App::create
Init ==
    /\ stored \in {None, Some(Saved)}
    /\ LET state == IF stored = None THEN StateDefault ELSE stored[1]
       IN /\ lists = state.lists
          /\ groups = state.groups
          /\ current_list = FirstKey(state.lists)
          /\ current_group = FirstKey(state.groups)
    /\ new_list_name = ""
    /\ new_group_name = ""
    /\ cache = EmptyMap
    /\ current_item = None
    /\ writes = 0
    /\ panicked = FALSE
    /\ shown = <<>>
    /\ msg = M("Init", "", 0, FALSE)
    /\ pre = [lists |-> lists, groups |-> groups, current_list |-> current_list,
              new_list_name |-> "", current_group |-> current_group,
              new_group_name |-> "", cache |-> EmptyMap,
              current_item |-> None]
    /\ steps = 0

\* ------------------------------------------------------- update plumbing
\* A message is accepted: update runs to its end unless it panics.
Deliver(m) ==
    /\ ~panicked
    /\ steps < MaxSteps
    /\ steps' = steps + 1
    /\ msg' = m
    /\ pre' = Cur
    /\ UNCHANGED shown

\* self.storage.store(KEY, Json(&self.state)); true
StoreState ==
    /\ stored' = Some([lists |-> lists', groups |-> groups'])
    /\ writes' = 1
    /\ panicked' = FALSE

\* A panic unwinds out of update before the store.
Panic ==
    /\ panicked' = TRUE
    /\ writes' = 0
    /\ UNCHANGED stored

\* ---------------------------------------------------------------- helpers
\* iter().position(|x| *x == name): 1-based index of the first match, 0 if none.
Position(s, name) ==
    IF \E i \in DOMAIN s : s[i] = name
    THEN CHOOSE i \in DOMAIN s : s[i] = name /\ \A j \in DOMAIN s : s[j] = name => i <= j
    ELSE 0

\* pop() in place of remove(idx): the last element goes, whatever idx is.
RemoveLast(s, i) == [j \in 1 .. (Len(s) - 1) |-> s[j]]

\* Vec::remove(idx) for an index in range (idx is 1-based here).
RemoveAt(s, i) == [j \in 1 .. (Len(s) - 1) |-> IF j < i THEN s[j] ELSE s[j + 1]]

\* "if let" in place of "while let": only the first occurrence goes.
RemoveFirst(s, name) ==
    IF Position(s, name) = 0 THEN s ELSE RemoveAt(s, Position(s, name))

RECURSIVE RemoveAll(_, _)
\* while let Some(idx) = group.iter().position(|x| *x == name) { group.remove(idx); }
RemoveAll(s, name) ==
    IF Position(s, name) = 0 THEN s
    ELSE RemoveAll(RemoveAt(s, Position(s, name)), name)

\* The scrub stops after the first group that held the name.
ScrubFirstGroup(gs, name) ==
    [g \in DOMAIN gs |->
        IF \E h \in DOMAIN gs :
              /\ Position(gs[h], name) # 0
              /\ \E i, j \in DOMAIN NameOrder : NameOrder[i] = h /\ NameOrder[j] = g /\ i < j
        THEN gs[g]
        ELSE RemoveAll(gs[g], name)]

\* for (_, group) in self.state.groups.iter_mut() { ...remove every name... }
ScrubGroups(gs, name) == [g \in DOMAIN gs |-> RemoveAll(gs[g], name)]

\* The text stored as typed, the empty string included.
FieldAsTyped(text) == Some(text)

\* match text.is_empty() { true => None, false => Some(text) }
FieldOf(text) == IF text = "" THEN None ELSE Some(text)

\* get_current_item_mut that clamps an index past the end to the last item.
CurrentItemPosClamped ==
    IF current_list \in DOMAIN lists /\ current_item # None
    THEN IF current_item[1] < Len(lists[current_list])
         THEN current_item[1] + 1
         ELSE Len(lists[current_list])
    ELSE 0

\* get_current_item_mut: the 1-based position of the focused item, 0 if None.
CurrentItemPos ==
    IF /\ current_list \in DOMAIN lists
       /\ current_item # None
       /\ current_item[1] < Len(lists[current_list])
    THEN current_item[1] + 1
    ELSE 0

\* first() in place of choose(): the draw always returns the first item.
choose_first(name) ==
    IF name \in DOMAIN lists
    THEN {lists[name][i] : i \in (DOMAIN lists[name]) \cap {1}}
    ELSE {ItemDefault}

\* choose_from_list: the Items the draw can return. The empty set is the
\* unwrap() of choose() on an empty list, which panics.
choose_from_list(name) ==
    IF name \in DOMAIN lists
    THEN {lists[name][i] : i \in DOMAIN lists[name]}
    ELSE {ItemDefault}

\* ---------------------------------------------------------------- messages
\* CreateList that clones the buffer and leaves it filled.
CreateListKeepsBuffer ==
    /\ Deliver(M("CreateList", "", 0, FALSE))
    /\ lists' = EntryOrDefault(lists, new_list_name)
    /\ current_list' = new_list_name
    /\ UNCHANGED <<groups, new_list_name, current_group, new_group_name, cache,
                   current_item>>
    /\ StoreState

CreateList ==
    /\ Deliver(M("CreateList", "", 0, FALSE))
    /\ lists' = EntryOrDefault(lists, new_list_name)
    /\ current_list' = new_list_name
    /\ new_list_name' = ""
    /\ UNCHANGED <<groups, current_group, new_group_name, cache, current_item>>
    /\ StoreState

CreateGroup ==
    /\ Deliver(M("CreateGroup", "", 0, FALSE))
    /\ groups' = EntryOrDefault(groups, new_group_name)
    /\ current_group' = new_group_name
    /\ new_group_name' = ""
    /\ UNCHANGED <<lists, current_list, new_list_name, cache, current_item>>
    /\ StoreState

FocusList(name) ==
    /\ Deliver(M("FocusList", name, 0, FALSE))
    /\ current_list' = name
    /\ UNCHANGED <<lists, groups, new_list_name, current_group, new_group_name,
                   cache, current_item>>
    /\ StoreState

FocusGroup(name) ==
    /\ Deliver(M("FocusGroup", name, 0, FALSE))
    /\ current_group' = name
    /\ UNCHANGED <<lists, groups, current_list, new_list_name, new_group_name,
                   cache, current_item>>
    /\ StoreState

BlurList ==
    /\ Deliver(M("BlurList", "", 0, FALSE))
    /\ current_list' = ""
    /\ current_item' = None
    /\ UNCHANGED <<lists, groups, new_list_name, current_group, new_group_name, cache>>
    /\ StoreState

BlurGroup ==
    /\ Deliver(M("BlurGroup", "", 0, FALSE))
    /\ current_group' = ""
    /\ UNCHANGED <<lists, groups, current_list, new_list_name, new_group_name,
                   cache, current_item>>
    /\ StoreState

\* CreateItem that focuses list.len() and keeps the focus when no list is current.
CreateItemFocusLen ==
    /\ Deliver(M("CreateItem", "", 0, FALSE))
    /\ IF current_list \in DOMAIN lists
       THEN /\ lists' = [lists EXCEPT ![current_list] = Append(@, ItemDefault)]
            /\ current_item' = Some(Len(lists[current_list]) + 1)
       ELSE /\ lists' = lists
            /\ current_item' = current_item
    /\ UNCHANGED <<groups, current_list, new_list_name, current_group,
                   new_group_name, cache>>
    /\ StoreState

CreateItem ==
    /\ Deliver(M("CreateItem", "", 0, FALSE))
    /\ IF current_list \in DOMAIN lists
       THEN /\ lists' = [lists EXCEPT ![current_list] = Append(@, ItemDefault)]
            /\ current_item' = Some(Len(lists[current_list]))
       ELSE /\ lists' = lists
            /\ current_item' = None
    /\ UNCHANGED <<groups, current_list, new_list_name, current_group,
                   new_group_name, cache>>
    /\ StoreState

FocusItem(idx) ==
    /\ Deliver(M("FocusItem", "", idx, FALSE))
    /\ current_item' = Some(idx)
    /\ UNCHANGED <<lists, groups, current_list, new_list_name, current_group,
                   new_group_name, cache>>
    /\ StoreState

BlurItem ==
    /\ Deliver(M("BlurItem", "", 0, FALSE))
    /\ current_item' = None
    /\ UNCHANGED <<lists, groups, current_list, new_list_name, current_group,
                   new_group_name, cache>>
    /\ StoreState

AddToGroup(entry) ==
    /\ Deliver(M("AddToGroup", entry, 0, FALSE))
    /\ groups' = IF current_group \in DOMAIN groups
                 THEN [groups EXCEPT ![current_group] = Append(@, entry)]
                 ELSE groups
    /\ UNCHANGED <<lists, current_list, new_list_name, current_group,
                   new_group_name, cache, current_item>>
    /\ StoreState

UpdateListName(text) ==
    /\ Deliver(M("UpdateListName", text, 0, FALSE))
    /\ new_list_name' = text
    /\ UNCHANGED <<lists, groups, current_list, current_group, new_group_name,
                   cache, current_item>>
    /\ StoreState

UpdateGroupName(text) ==
    /\ Deliver(M("UpdateGroupName", text, 0, FALSE))
    /\ new_group_name' = text
    /\ UNCHANGED <<lists, groups, current_list, new_list_name, current_group,
                   cache, current_item>>
    /\ StoreState

\* The four EditItem* arms differ only in the field they assign.
EditItem(kind, field, text) ==
    /\ Deliver(M(kind, text, 0, FALSE))
    /\ lists' = IF CurrentItemPos # 0
                THEN [lists EXCEPT ![current_list][CurrentItemPos] =
                          [@ EXCEPT ![field] = FieldOf(text)]]
                ELSE lists
    /\ UNCHANGED <<groups, current_list, new_list_name, current_group,
                   new_group_name, cache, current_item>>
    /\ StoreState

EditItemName(text) == EditItem("EditItemName", "name", text)

EditItemImage(text) == EditItem("EditItemImage", "image", text)

EditItemLink(text) == EditItem("EditItemLink", "link", text)

EditItemComment(text) == EditItem("EditItemComment", "comment", text)

\* RemoveList that scrubs the groups whether or not a list was removed.
RemoveListAlwaysScrub(name, ok) ==
    /\ Deliver(M("RemoveList", name, 0, ok))
    /\ IF ok
       THEN /\ lists' = MapRemove(lists, name)
            /\ groups' = ScrubGroups(groups, name)
       ELSE UNCHANGED <<lists, groups>>
    /\ UNCHANGED <<current_list, new_list_name, current_group, new_group_name,
                   cache, current_item>>
    /\ StoreState

\* ok is the answer of DialogService::confirm.
RemoveList(name, ok) ==
    /\ Deliver(M("RemoveList", name, 0, ok))
    /\ IF ok
       THEN /\ lists' = MapRemove(lists, name)
            /\ groups' = IF name \in DOMAIN lists THEN ScrubGroups(groups, name) ELSE groups
       ELSE UNCHANGED <<lists, groups>>
    /\ UNCHANGED <<current_list, new_list_name, current_group, new_group_name,
                   cache, current_item>>
    /\ StoreState

\* Vec::remove panics when idx >= len.
RemoveListItem(idx) ==
    /\ Deliver(M("RemoveListItem", "", idx, FALSE))
    /\ UNCHANGED <<groups, current_list, new_list_name, current_group,
                   new_group_name, cache, current_item>>
    /\ IF current_list \notin DOMAIN lists
       THEN /\ lists' = lists
            /\ StoreState
       ELSE IF idx < Len(lists[current_list])
            THEN /\ lists' = [lists EXCEPT ![current_list] = RemoveAt(@, idx + 1)]
                 /\ StoreState
            ELSE /\ lists' = lists
                 /\ Panic

\* RemoveGroup that does not ask.
RemoveGroupUnasked(name, ok) ==
    /\ Deliver(M("RemoveGroup", name, 0, ok))
    /\ groups' = MapRemove(groups, name)
    /\ UNCHANGED <<lists, current_list, new_list_name, current_group,
                   new_group_name, cache, current_item>>
    /\ StoreState

RemoveGroup(name, ok) ==
    /\ Deliver(M("RemoveGroup", name, 0, ok))
    /\ groups' = IF ok THEN MapRemove(groups, name) ELSE groups
    /\ UNCHANGED <<lists, current_list, new_list_name, current_group,
                   new_group_name, cache, current_item>>
    /\ StoreState

RemoveGroupItem(name) ==
    /\ Deliver(M("RemoveGroupItem", name, 0, FALSE))
    /\ groups' = IF current_group \in DOMAIN groups
                 THEN [groups EXCEPT ![current_group] = RemoveAll(@, name)]
                 ELSE groups
    /\ UNCHANGED <<lists, current_list, new_list_name, current_group,
                   new_group_name, cache, current_item>>
    /\ StoreState

\* Position in shown of the last element rendered for name, 0 if none.
LastShown(name) ==
    IF \E i \in DOMAIN shown : shown[i].name = name
    THEN CHOOSE i \in DOMAIN shown :
             shown[i].name = name /\ \A j \in DOMAIN shown : shown[j].name = name => j <= i
    ELSE 0

\* FreezeList that stores the Item last displayed for name when there is one.
FreezeListPinsShown(name) ==
    /\ Deliver(M("FreezeList", name, 0, FALSE))
    /\ UNCHANGED <<lists, groups, current_list, new_list_name, current_group,
                   new_group_name, current_item>>
    /\ IF LastShown(name) # 0
       THEN /\ cache' = MapInsert(cache, name, shown[LastShown(name)].item)
            /\ StoreState
       ELSE IF choose_from_list(name) = {}
            THEN /\ cache' = cache
                 /\ Panic
            ELSE /\ \E new \in choose_from_list(name) : cache' = MapInsert(cache, name, new)
                 /\ StoreState

\* The draw panics on a list that exists and is empty, before the insert.
FreezeList(name) ==
    /\ Deliver(M("FreezeList", name, 0, FALSE))
    /\ UNCHANGED <<lists, groups, current_list, new_list_name, current_group,
                   new_group_name, current_item>>
    /\ IF choose_from_list(name) = {}
       THEN /\ cache' = cache
            /\ Panic
       ELSE /\ \E new \in choose_from_list(name) : cache' = MapInsert(cache, name, new)
            /\ StoreState

\* ThawList that clears the whole cache.
ThawListClearsAll(name) ==
    /\ Deliver(M("ThawList", name, 0, FALSE))
    /\ cache' = EmptyMap
    /\ UNCHANGED <<lists, groups, current_list, new_list_name, current_group,
                   new_group_name, current_item>>
    /\ StoreState

ThawList(name) ==
    /\ Deliver(M("ThawList", name, 0, FALSE))
    /\ cache' = MapRemove(cache, name)
    /\ UNCHANGED <<lists, groups, current_list, new_list_name, current_group,
                   new_group_name, current_item>>
    /\ StoreState

ThawAllLists ==
    /\ Deliver(M("ThawAllLists", "", 0, FALSE))
    /\ cache' = EmptyMap
    /\ UNCHANGED <<lists, groups, current_list, new_list_name, current_group,
                   new_group_name, current_item>>
    /\ StoreState

\* Purge that resets the State and leaves the View alone.
PurgeStateOnly(ok) ==
    /\ Deliver(M("Purge", "", 0, ok))
    /\ IF ok
       THEN /\ lists' = EmptyMap
            /\ groups' = EmptyMap
       ELSE UNCHANGED <<lists, groups>>
    /\ UNCHANGED <<current_list, new_list_name, current_group, new_group_name,
                   cache, current_item>>
    /\ StoreState

\* self.state = State::default(); self.view = View::default();
Purge(ok) ==
    /\ Deliver(M("Purge", "", 0, ok))
    /\ IF ok
       THEN /\ lists' = EmptyMap
            /\ groups' = EmptyMap
            /\ current_list' = ""
            /\ new_list_name' = ""
            /\ current_group' = ""
            /\ new_group_name' = ""
            /\ cache' = EmptyMap
            /\ current_item' = None
       ELSE UNCHANGED <<lists, groups, current_list, new_list_name, current_group,
                        new_group_name, cache, current_item>>
    /\ StoreState

Tick ==
    /\ Deliver(M("Tick", "", 0, FALSE))
    /\ UNCHANGED <<lists, groups, current_list, new_list_name, current_group,
                   new_group_name, cache, current_item>>
    /\ StoreState

Nothing ==
    /\ Deliver(M("Nothing", "", 0, FALSE))
    /\ UNCHANGED <<lists, groups, current_list, new_list_name, current_group,
                   new_group_name, cache, current_item>>
    /\ StoreState

\* ------------------------------------------------------------- projection
\* render_group_element(name): the cached Item as-is when the cache has an
\* entry, otherwise a fresh draw. The set of what it can display; empty when
\* the draw panics.
render_group_element(name) ==
    IF name \in DOMAIN cache
    THEN {[name |-> name, frozen |-> TRUE, item |-> cache[name]]}
    ELSE {[name |-> name, frozen |-> FALSE, item |-> it] : it \in choose_from_list(name)}

RECURSIVE render_members(_)
\* group.iter().map(|entry| self.render_group_element(entry)), in order.
render_members(members) ==
    IF members = <<>> THEN {<<>>}
    ELSE {<<e>> \o rest : e \in render_group_element(Head(members)),
                          rest \in render_members(Tail(members))}

\* render_group: one element per member of the current group; nothing when
\* the current group does not exist. Empty when a draw panics.
render_group ==
    IF current_group \in DOMAIN groups
    THEN render_members(groups[current_group])
    ELSE {<<>>}

\* App::view, as far as it reads the cache and draws.
View ==
    /\ ~panicked
    /\ msg' = M("View", "", 0, FALSE)
    /\ pre' = Cur
    /\ IF render_group = {}
       THEN /\ panicked' = TRUE
            /\ shown' = shown
       ELSE /\ panicked' = FALSE
            /\ shown' \in render_group
    /\ UNCHANGED <<lists, groups, current_list, new_list_name, current_group,
                   new_group_name, cache, current_item, stored, writes, steps>>

Next ==
    \/ CreateItem
    \/ \E text \in Texts : EditItemName(text)
    \/ \E text \in Texts : EditItemImage(text)
    \/ \E text \in Texts : EditItemLink(text)
    \/ \E text \in Texts : EditItemComment(text)
    \/ \E idx \in Indices : FocusItem(idx)
    \/ BlurItem
    \/ CreateList
    \/ \E name \in Names : FocusList(name)
    \/ BlurList
    \/ \E text \in Names : UpdateListName(text)
    \/ \E name \in Names, ok \in BOOLEAN : RemoveList(name, ok)
    \/ \E idx \in Indices : RemoveListItem(idx)
    \/ CreateGroup
    \/ \E name \in Names : FocusGroup(name)
    \/ BlurGroup
    \/ \E entry \in Names : AddToGroup(entry)
    \/ \E text \in Names : UpdateGroupName(text)
    \/ \E name \in Names, ok \in BOOLEAN : RemoveGroup(name, ok)
    \/ \E name \in Names : RemoveGroupItem(name)
    \/ ThawAllLists
    \/ \E name \in Names : FreezeList(name)
    \/ \E name \in Names : ThawList(name)
    \/ \E ok \in BOOLEAN : Purge(ok)
    \/ Tick
    \/ Nothing
    \/ View

Spec == Init /\ [][Next]_vars

TypeOK ==
    /\ DOMAIN lists \subseteq Names
    /\ DOMAIN groups \subseteq Names
    /\ DOMAIN cache \subseteq Names
    /\ current_list \in Names
    /\ current_group \in Names
    /\ writes \in {0, 1}
    /\ steps \in 0 .. MaxSteps

\* ------------------------------------------------------------ properties
\* The members of s other than name, in their order.
Without(s, name) == LET Keep(x) == x # name IN SelectSeq(s, Keep)

Count(s, name) == Cardinality({i \in DOMAIN s : s[i] = name})

\* The last step was the delivery of a message of this kind.
Handled(kind) == msg.kind = kind

\* C1: after a confirmed RemoveList(name) of a list that exists, name is no
\* key of lists, no group holds name any more, and every group keeps its
\* other members in their order.
C1_RemoveListCascades ==
    (Handled("RemoveList") /\ msg.ok /\ msg.arg \in DOMAIN pre.lists) =>
        /\ msg.arg \notin DOMAIN lists
        /\ DOMAIN groups = DOMAIN pre.groups
        /\ \A g \in DOMAIN groups :
              /\ Count(groups[g], msg.arg) = 0
              /\ groups[g] = Without(pre.groups[g], msg.arg)

\* A list named by two groups, twice by one of them, was deleted and that
\* group keeps two other members.
C1_Witness ==
    /\ Handled("RemoveList") /\ msg.ok /\ msg.arg \in DOMAIN pre.lists
    /\ \E g, h \in DOMAIN pre.groups :
          /\ g # h
          /\ Count(pre.groups[g], msg.arg) >= 2
          /\ Count(pre.groups[h], msg.arg) >= 1
          /\ Len(groups[g]) >= 2

\* C2: FreezeList(name) on a list that is absent or empty does not fail and
\* stores the sentinel Item (all four fields None) under name.
C2_EmptyDrawIsSentinel ==
    (/\ Handled("FreezeList")
     /\ (msg.arg \notin DOMAIN pre.lists \/ pre.lists[msg.arg] = <<>>)) =>
        /\ ~panicked
        /\ msg.arg \in DOMAIN cache
        /\ cache[msg.arg] = ItemDefault

\* C3: RemoveListItem(i) handled while the current-item focus is i leaves the
\* focus None.
C3_RemoveItemClearsFocus ==
    (Handled("RemoveListItem") /\ pre.current_item = Some(msg.idx)) =>
        current_item = None

\* C4: RemoveListItem(idx) with no current list, or with idx at or beyond the
\* current list's length, completes and changes nothing.
C4_RemoveItemOutOfRangeNoOp ==
    (/\ Handled("RemoveListItem")
     /\ (\/ pre.current_list \notin DOMAIN pre.lists
         \/ msg.idx >= Len(pre.lists[pre.current_list]))) =>
        /\ ~panicked
        /\ Cur = pre

\* C5: every delivered message ends with one store, after which the stored
\* snapshot is the current lists and groups.
C5_EveryMessageStores ==
    (msg.kind \notin {"Init", "View"}) =>
        /\ writes = 1
        /\ stored = Some([lists |-> lists, groups |-> groups])

\* C6: after a confirmed Purge lists, groups and the cache are empty, the
\* three focuses and both staged buffers are reset, and the snapshot written
\* is the empty State.
C6_PurgeResetsAll ==
    (Handled("Purge") /\ msg.ok) =>
        /\ lists = EmptyMap
        /\ groups = EmptyMap
        /\ cache = EmptyMap
        /\ current_list = ""
        /\ current_group = ""
        /\ current_item = None
        /\ new_list_name = ""
        /\ new_group_name = ""
        /\ writes = 1
        /\ stored = Some(StateDefault)

\* A confirmed Purge of a component with lists, groups, a frozen entry and a
\* staged list name.
C6_Witness ==
    /\ Handled("Purge") /\ msg.ok
    /\ pre.lists # EmptyMap
    /\ pre.groups # EmptyMap
    /\ pre.cache # EmptyMap
    /\ pre.new_list_name # ""

\* C7: CreateList with the staged buffer naming an existing list X leaves
\* lists as it was and focuses X; CreateGroup likewise for groups.
C7_CreateExistingIsIdempotent ==
    /\ (Handled("CreateList") /\ pre.new_list_name \in DOMAIN pre.lists) =>
           /\ lists = pre.lists
           /\ current_list = pre.new_list_name
    /\ (Handled("CreateGroup") /\ pre.new_group_name \in DOMAIN pre.groups) =>
           /\ groups = pre.groups
           /\ current_group = pre.new_group_name

\* CreateList named a list that holds items and was not the focused one.
C7_Witness ==
    /\ Handled("CreateList")
    /\ pre.new_list_name \in DOMAIN pre.lists
    /\ pre.lists[pre.new_list_name] # <<>>
    /\ pre.current_list # pre.new_list_name
    /\ current_list = pre.new_list_name

\* C8: RemoveGroupItem(name) leaves the current group with its members other
\* than name, in order, and every other group as it was; with no current
\* group nothing changes.
C8_RemoveGroupItemRemovesAll ==
    Handled("RemoveGroupItem") =>
        IF pre.current_group \in DOMAIN pre.groups
        THEN /\ DOMAIN groups = DOMAIN pre.groups
             /\ \A g \in DOMAIN groups :
                   groups[g] = IF g = pre.current_group
                               THEN Without(pre.groups[g], msg.arg)
                               ELSE pre.groups[g]
             /\ Count(groups[pre.current_group], msg.arg) = 0
        ELSE Cur = pre

\* A name the current group held twice was removed and two members stay.
C8_Witness ==
    /\ Handled("RemoveGroupItem")
    /\ pre.current_group \in DOMAIN pre.groups
    /\ Count(pre.groups[pre.current_group], msg.arg) >= 2
    /\ Len(groups[pre.current_group]) >= 2

\* C9: after FreezeList(name) the cache has an entry for name, which the read
\* path returns as it is; after ThawList(name) it has none, and ThawList of a
\* name without an entry changes nothing.
C9_FreezeThenPeek ==
    /\ Handled("FreezeList") =>
           /\ msg.arg \in DOMAIN cache
           /\ render_group_element(msg.arg) =
                  {[name |-> msg.arg, frozen |-> TRUE, item |-> cache[msg.arg]]}
    /\ Handled("ThawList") =>
           /\ msg.arg \notin DOMAIN cache
           /\ (msg.arg \notin DOMAIN pre.cache => Cur = pre)

\* C10: view never renders the cached Item for a member that names no list.
C10_OrphanEntryNotShown ==
    (Handled("View") /\ ~panicked) =>
        \A i \in DOMAIN shown :
            shown[i].name \notin DOMAIN lists => ~shown[i].frozen

\* The current-item focus is None or indexes an item of an existing current list.
FocusValid ==
    \/ current_item = None
    \/ /\ current_list \in DOMAIN lists
       /\ current_item[1] < Len(lists[current_list])

\* C11: after RemoveListItem, a confirmed RemoveList of the current list,
\* CreateItem, BlurList or a confirmed Purge, the current-item focus is None
\* or an index below the length of an existing current list.
C11_FocusValidAfterListChange ==
    (\/ Handled("RemoveListItem")
     \/ (Handled("RemoveList") /\ msg.ok /\ msg.arg = pre.current_list)
     \/ Handled("CreateItem")
     \/ Handled("BlurList")
     \/ (Handled("Purge") /\ msg.ok)) => FocusValid

EditKinds == {"EditItemName", "EditItemImage", "EditItemLink", "EditItemComment"}

\* The Item field an Edit message assigns.
EditField(kind) ==
    CASE kind = "EditItemName" -> "name"
      [] kind = "EditItemImage" -> "image"
      [] kind = "EditItemLink" -> "link"
      [] kind = "EditItemComment" -> "comment"

\* get_current_item_mut on the component before the last step (1-based, 0 if None).
PreItemPos ==
    IF /\ pre.current_list \in DOMAIN pre.lists
       /\ pre.current_item # None
       /\ pre.current_item[1] < Len(pre.lists[pre.current_list])
    THEN pre.current_item[1] + 1
    ELSE 0

\* C12: no field of any Item of any list is the empty string; an Edit with
\* empty text leaves the field None and one with a text leaves exactly it.
C12_NoEmptyStringField ==
    /\ \A n \in DOMAIN lists : \A i \in DOMAIN lists[n] :
          \A f \in {"name", "image", "link", "comment"} : lists[n][i][f] # Some("")
    /\ (msg.kind \in EditKinds /\ PreItemPos # 0) =>
          lists[pre.current_list][PreItemPos][EditField(msg.kind)] =
              (IF msg.arg = "" THEN None ELSE Some(msg.arg))

\* An Edit with empty text cleared a field that held a text.
C12_Witness ==
    /\ msg.kind \in EditKinds /\ PreItemPos # 0 /\ msg.arg = ""
    /\ pre.lists[pre.current_list][PreItemPos][EditField(msg.kind)] = Some("x")
    /\ lists[pre.current_list][PreItemPos][EditField(msg.kind)] = None

\* C13: a declined RemoveList, RemoveGroup or Purge leaves lists, groups,
\* the cache, the three focuses and both buffers as they were.
C13_DeclinedChangesNothing ==
    (msg.kind \in {"RemoveList", "RemoveGroup", "Purge"} /\ ~msg.ok) => Cur = pre

\* A declined RemoveGroup of a group that exists, with a frozen entry around.
C13_Witness ==
    /\ Handled("RemoveGroup") /\ ~msg.ok
    /\ msg.arg \in DOMAIN groups
    /\ groups[msg.arg] # <<>>
    /\ cache # EmptyMap

\* C14: RemoveListItem(i) with i below the current list's length L leaves
\* that list with L-1 items, those below i as they were and each later one
\* moved down by one; other lists and all groups are as they were.
C14_RemoveItemShifts ==
    (/\ Handled("RemoveListItem")
     /\ pre.current_list \in DOMAIN pre.lists
     /\ msg.idx < Len(pre.lists[pre.current_list])) =>
        LET old == pre.lists[pre.current_list]
            new == lists[pre.current_list]
        IN /\ DOMAIN lists = DOMAIN pre.lists
           /\ Len(new) = Len(old) - 1
           /\ \A j \in 1 .. Len(new) :
                 new[j] = IF j < msg.idx + 1 THEN old[j] ELSE old[j + 1]
           /\ \A n \in DOMAIN lists : n # pre.current_list => lists[n] = pre.lists[n]
           /\ groups = pre.groups

\* An item with one before it and one after it was removed.
C14_Witness ==
    /\ Handled("RemoveListItem")
    /\ pre.current_list \in DOMAIN pre.lists
    /\ msg.idx > 0
    /\ msg.idx + 1 < Len(pre.lists[pre.current_list])
    /\ Len(lists[pre.current_list]) = Len(pre.lists[pre.current_list]) - 1

\* C15: CreateItem with an existing current list appends one Item with all
\* fields None, keeps the earlier items and focuses the new last index;
\* with no current list, lists are unchanged and no index is focused.
C15_CreateItemAppends ==
    Handled("CreateItem") =>
        IF pre.current_list \in DOMAIN pre.lists
        THEN /\ DOMAIN lists = DOMAIN pre.lists
             /\ \A n \in DOMAIN lists :
                   lists[n] = IF n = pre.current_list
                              THEN pre.lists[n] \o <<ItemDefault>>
                              ELSE pre.lists[n]
             /\ current_item = Some(Len(lists[pre.current_list]) - 1)
        ELSE /\ lists = pre.lists
             /\ current_item = None

\* An item was appended to a list that had items.
C15_Witness ==
    /\ Handled("CreateItem")
    /\ pre.current_list \in DOMAIN pre.lists
    /\ pre.lists[pre.current_list] # <<>>
    /\ current_item = Some(Len(pre.lists[pre.current_list]))

C17_RemoveAbsentListNoScrub ==
    (Handled("RemoveList") /\ msg.ok /\ msg.arg \notin DOMAIN pre.lists) =>
        /\ lists = pre.lists
        /\ groups = pre.groups

\* A group named the absent list and still does.
C17_Witness ==
    /\ Handled("RemoveList") /\ msg.ok /\ msg.arg \notin DOMAIN pre.lists
    /\ \E g \in DOMAIN groups : Count(groups[g], msg.arg) >= 1

\* A further message can be delivered.
Accepting == ~panicked /\ steps < MaxSteps

\* C18: FreezeList(name) on a list with at least one item stores one of the
\* items the list holds, and each item of the list can be the one stored.
C18_FreezeStoresAnItemOfTheList ==
    /\ (/\ Handled("FreezeList")
        /\ msg.arg \in DOMAIN pre.lists
        /\ pre.lists[msg.arg] # <<>>) =>
           /\ ~panicked
           /\ msg.arg \in DOMAIN cache
           /\ \E i \in DOMAIN pre.lists[msg.arg] : cache[msg.arg] = pre.lists[msg.arg][i]
    /\ Accepting =>
           \A n \in DOMAIN lists : \A i \in DOMAIN lists[n] :
               ENABLED (FreezeList(n) /\ cache'[n] = lists[n][i])

\* The second of two different items was the one stored.
C18_Witness ==
    /\ Handled("FreezeList")
    /\ msg.arg \in DOMAIN pre.lists
    /\ Len(pre.lists[msg.arg]) >= 2
    /\ pre.lists[msg.arg][1] # pre.lists[msg.arg][2]
    /\ cache[msg.arg] = pre.lists[msg.arg][2]

\* C19 as stated: the Item FreezeList(name) stores is the one the most recent
\* read of the unfrozen member name displayed.
C19_FreezePinsShown ==
    (/\ Handled("FreezeList")
     /\ LastShown(msg.arg) # 0
     /\ ~shown[LastShown(msg.arg)].frozen) =>
        /\ msg.arg \in DOMAIN cache
        /\ cache[msg.arg] = shown[LastShown(msg.arg)].item

\* C19 amended: FreezeList(name) draws anew. On a name that is no list it
\* stores the sentinel, on a list with items one of its items, and whatever
\* Item was last displayed for an unfrozen member, every item its list now
\* holds can be the one stored.
C19_FreezeDrawsAnew ==
    /\ (Handled("FreezeList") /\ msg.arg \notin DOMAIN pre.lists) =>
           /\ msg.arg \in DOMAIN cache
           /\ cache[msg.arg] = ItemDefault
    /\ (Handled("FreezeList") /\ msg.arg \in DOMAIN pre.lists /\ pre.lists[msg.arg] # <<>>) =>
           /\ msg.arg \in DOMAIN cache
           /\ cache[msg.arg] \in {pre.lists[msg.arg][i] : i \in DOMAIN pre.lists[msg.arg]}
    /\ Accepting =>
           \A k \in DOMAIN shown :
               (~shown[k].frozen /\ shown[k].name \in DOMAIN lists) =>
                   \A i \in DOMAIN lists[shown[k].name] :
                       ENABLED (/\ FreezeList(shown[k].name)
                                /\ cache'[shown[k].name] = lists[shown[k].name][i])

\* The Item stored differs from the one last displayed for the member.
C19_Witness ==
    /\ Handled("FreezeList")
    /\ ~panicked
    /\ LastShown(msg.arg) # 0
    /\ ~shown[LastShown(msg.arg)].frozen
    /\ msg.arg \in DOMAIN cache
    /\ cache[msg.arg] # shown[LastShown(msg.arg)].item

\* C20: an entry of the cache keeps its value through every step other than
\* FreezeList or ThawList of its name, ThawAllLists and a confirmed Purge.
C20_FrozenEntryIsACopy ==
    \A n \in DOMAIN pre.cache :
        (/\ ~(Handled("FreezeList") /\ msg.arg = n)
         /\ ~(Handled("ThawList") /\ msg.arg = n)
         /\ ~Handled("ThawAllLists")
         /\ ~(Handled("Purge") /\ msg.ok)) =>
            /\ n \in DOMAIN cache
            /\ cache[n] = pre.cache[n]

\* The item a frozen entry was copied from was edited and the entry was not.
C20_Witness ==
    /\ msg.kind \in EditKinds /\ PreItemPos # 0
    /\ pre.current_list \in DOMAIN cache
    /\ cache[pre.current_list] = pre.lists[pre.current_list][PreItemPos]
    /\ cache[pre.current_list] # lists[pre.current_list][PreItemPos]
    /\ \A i \in DOMAIN lists[pre.current_list] :
          cache[pre.current_list] # lists[pre.current_list][i]

\* C21: right after BlurList, CreateItem, an Edit and RemoveListItem change
\* no list; right after BlurGroup, AddToGroup and RemoveGroupItem change no
\* group.
C21_BlurLeavesNothingFocused ==
    /\ [][(/\ Handled("BlurList")
           /\ msg'.kind \in EditKinds \cup {"CreateItem", "RemoveListItem"}) =>
              lists' = lists]_vars
    /\ [][(/\ Handled("BlurGroup")
           /\ msg'.kind \in {"AddToGroup", "RemoveGroupItem"}) =>
              groups' = groups]_vars

\* C22: an Edit does not fail and changes at most the field it names of the
\* Item at (current list, current item); with no such Item nothing changes.
C22_EditTouchesOneField ==
    (msg.kind \in EditKinds) =>
        /\ ~panicked
        /\ groups = pre.groups
        /\ cache = pre.cache
        /\ current_list = pre.current_list
        /\ current_group = pre.current_group
        /\ current_item = pre.current_item
        /\ new_list_name = pre.new_list_name
        /\ new_group_name = pre.new_group_name
        /\ DOMAIN lists = DOMAIN pre.lists
        /\ \A n \in DOMAIN lists :
              /\ Len(lists[n]) = Len(pre.lists[n])
              /\ \A i \in DOMAIN lists[n] :
                    \A f \in {"name", "image", "link", "comment"} :
                        (\/ PreItemPos = 0
                         \/ n # pre.current_list
                         \/ i # PreItemPos
                         \/ f # EditField(msg.kind)) =>
                            lists[n][i][f] = pre.lists[n][i][f]

\* An Edit changed a field of one of two items of the current list.
C22_Witness ==
    /\ msg.kind \in EditKinds
    /\ PreItemPos # 0
    /\ Len(pre.lists[pre.current_list]) >= 2
    /\ lists[pre.current_list][PreItemPos] # pre.lists[pre.current_list][PreItemPos]

\* An Edit with the focus past the end of the current list changed nothing.
C22_WitnessOutOfRange ==
    /\ msg.kind \in EditKinds
    /\ pre.current_list \in DOMAIN pre.lists
    /\ pre.lists[pre.current_list] # <<>>
    /\ pre.current_item # None
    /\ PreItemPos = 0
    /\ Cur = pre

====
